---- MODULE Spec2Model ----
(***************************************************************************)
(* The create-order saga of tugas2/create-order-saga: the orchestrator's   *)
(* ExecuteCreateOrderSaga and the Order, Payment and Shipping services it  *)
(* calls over gRPC.  A remote call is three steps: the orchestrator issues *)
(* it, the service handles it (one atomic step: the handler's critical     *)
(* section), the orchestrator takes the answer.  The transport may lose    *)
(* the request or the answer, and the context of a call may expire.        *)
(* Amounts are counted in cents (the source's float32 values times 100).   *)
(***************************************************************************)
EXTENDS Naturals, Sequences, FiniteSets, TLC

VARIABLES
    orders,        \* order.Server.orders: order id -> Order
    payments,      \* payment.Server.payments: payment id -> Payment
    shipments,     \* shipping.Server.shipments: shipment id -> Shipment
    pc,            \* per saga: the line of ExecuteCreateOrderSaga it is at
    input,         \* per saga: the arguments of ExecuteCreateOrderSaga
    state,         \* per saga: SagaState
    rpc,           \* per saga: the remote call in flight
    sagaCtxDone,   \* per saga: the caller's ctx has expired
    freshCtxDone,  \* per saga: the 5 s context of the current compensating/finalize call has expired
    result,        \* per saga: what ExecuteCreateOrderSaga returned
    calls,         \* per saga: the remote calls issued so far, with their outcomes
    runs,          \* per orchestrator: the sagas it has run against the services
    last,          \* the last call a client other than an orchestrator made, and its answer
    mu,            \* per service: the handler that holds Server.mu (0: nobody)
    handler        \* per handler goroutine: the call it serves and where in it it is

vars == <<orders, payments, shipments, pc, input, state, rpc,
          sagaCtxDone, freshCtxDone, result, calls, runs, last, mu, handler>>

(***************************************************************************)
(* Bounds and inputs                                                       *)
(***************************************************************************)
NumSagas == 2

\* The orchestrator is run at most this often against the same services.
MaxRuns == 2

Sagas == 1..NumSagas

ItemA == [ProductId |-> "prod-A", Quantity |-> 2, Price |-> 1050]
ItemB == [ProductId |-> "prod-B", Quantity |-> 1, Price |-> 2500]

Address1 == [Street |-> "123 Saga Lane", City |-> "Orchestration City"]
Address2 == [Street |-> "1 Main St", City |-> "Bandar Lampung"]

\* The arguments a caller passes to ExecuteCreateOrderSaga.
SagaInputs ==
    { [details |-> [UserId |-> "u1", Items |-> <<ItemA>>],
       paymentInfo |-> [Amount |-> 2100], shippingAddr |-> Address1],
      [details |-> [UserId |-> "u2", Items |-> <<ItemA, ItemB>>],
       paymentInfo |-> [Amount |-> 4600], shippingAddr |-> Address2] }

(***************************************************************************)
(* Messages                                                                *)
(***************************************************************************)
\* *commonpb.OrderID: a nil pointer, or a message with an Id.
NilOrderID == [isNil |-> TRUE, Id |-> ""]
OrderID(id) == [isNil |-> FALSE, Id |-> id]

NoMsg == [none |-> TRUE]

OK == "OK"
TransportCodes == {"Unavailable", "DeadlineExceeded"}

\* What a handler returns: the store as it leaves it, the response and the
\* gRPC status code (OK when err == nil).
Reply(store, resp, err) == [store |-> store, resp |-> resp, err |-> err]

Put(store, key, rec) == (key :> rec) @@ store

SetStatus(store, key, st) == [store EXCEPT ![key].Status = st]

(***************************************************************************)
(* Order service                                                           *)
(***************************************************************************)
RECURSIVE calculateTotal(_)
calculateTotal(items) ==
    IF items = <<>> THEN 0
    ELSE Head(items).Price * Head(items).Quantity + calculateTotal(Tail(items))

\* OrderIdOf giving every user the same order id.
OrderIdOfShared(userId) == "order-" \o "shared"

OrderIdOf(userId) == "order-" \o userId

\* CreateOrder taking a second id when the id of the user is in use.
CreateOrderFreshId(store, req) ==
    LET base == OrderIdOf(req.Details.UserId)
        orderID == IF base \in DOMAIN store THEN base \o "-2" ELSE base
        newOrder == [Id |-> orderID,
                     UserId |-> req.Details.UserId,
                     Items |-> req.Details.Items,
                     TotalAmount |-> calculateTotal(req.Details.Items),
                     Status |-> "PENDING"]
    IN  Reply(Put(store, orderID, newOrder),
              [OrderId |-> OrderID(orderID), Status |-> newOrder.Status], OK)

CreateOrder(store, req) ==
    LET orderID == OrderIdOf(req.Details.UserId)
        newOrder == [Id |-> orderID,
                     UserId |-> req.Details.UserId,
                     Items |-> req.Details.Items,
                     TotalAmount |-> calculateTotal(req.Details.Items),
                     Status |-> "PENDING"]
    IN  Reply(Put(store, orderID, newOrder),
              [OrderId |-> OrderID(orderID), Status |-> newOrder.Status], OK)

\* CancelOrder clearing the total of the order it cancels.
CancelOrderClearing(store, req) ==
    LET orderID == req.OrderId.Id IN
    IF orderID \notin DOMAIN store
    THEN Reply(store, NoMsg, "NotFound")
    ELSE IF store[orderID].Status = "CANCELLED"
    THEN Reply(store, [Success |-> TRUE, Message |-> "Order already cancelled"], OK)
    ELSE Reply([store EXCEPT ![orderID].Status = "CANCELLED", ![orderID].TotalAmount = 0],
               [Success |-> TRUE, Message |-> "Order cancelled successfully"], OK)

\* CancelOrder answering success for an order id it has no record of.
CancelOrderLenient(store, req) ==
    LET orderID == req.OrderId.Id IN
    IF orderID \notin DOMAIN store \/ store[orderID].Status = "CANCELLED"
    THEN Reply(store, [Success |-> TRUE, Message |-> "Order already cancelled"], OK)
    ELSE Reply(SetStatus(store, orderID, "CANCELLED"),
               [Success |-> TRUE, Message |-> "Order cancelled successfully"], OK)

\* CancelOrder leaving a COMPLETED order as it is.
CancelOrderKeepingCompleted(store, req) ==
    LET orderID == req.OrderId.Id IN
    IF orderID \notin DOMAIN store
    THEN Reply(store, NoMsg, "NotFound")
    ELSE IF store[orderID].Status \in {"CANCELLED", "COMPLETED"}
    THEN Reply(store, [Success |-> TRUE, Message |-> "Order already cancelled"], OK)
    ELSE Reply(SetStatus(store, orderID, "CANCELLED"),
               [Success |-> TRUE, Message |-> "Order cancelled successfully"], OK)

CancelOrder(store, req) ==
    LET orderID == req.OrderId.Id IN
    IF orderID \notin DOMAIN store
    THEN Reply(store, NoMsg, "NotFound")
    ELSE IF store[orderID].Status = "CANCELLED"
    THEN Reply(store, [Success |-> TRUE, Message |-> "Order already cancelled"], OK)
    ELSE Reply(SetStatus(store, orderID, "CANCELLED"),
               [Success |-> TRUE, Message |-> "Order cancelled successfully"], OK)

\* CompleteOrder writing COMPLETED whatever the status of the order is.
CompleteOrderAlways(store, req) ==
    LET orderID == req.OrderId.Id IN
    IF orderID \notin DOMAIN store
    THEN Reply(store, NoMsg, "NotFound")
    ELSE Reply(SetStatus(store, orderID, "COMPLETED"),
               [Success |-> TRUE, Message |-> "Order completion processed"], OK)

\* CompleteOrder answering success without the write of COMPLETED.
CompleteOrderNoWrite(store, req) ==
    LET orderID == req.OrderId.Id IN
    IF orderID \notin DOMAIN store
    THEN Reply(store, NoMsg, "NotFound")
    ELSE Reply(store, [Success |-> TRUE, Message |-> "Order completion processed"], OK)

CompleteOrder(store, req) ==
    LET orderID == req.OrderId.Id IN
    IF orderID \notin DOMAIN store
    THEN Reply(store, NoMsg, "NotFound")
    ELSE Reply(IF store[orderID].Status = "PENDING"
               THEN SetStatus(store, orderID, "COMPLETED")
               ELSE store,
               [Success |-> TRUE, Message |-> "Order completion processed"], OK)

(***************************************************************************)
(* Payment service                                                         *)
(***************************************************************************)
PaymentIdOf(orderID) == "pay-" \o orderID

\* ProcessPayment storing a record for a successful payment only.
ProcessPaymentRecordOnSuccess(store, req, succeeded) ==
    LET orderID == req.OrderId.Id
        paymentID == PaymentIdOf(orderID)
        paymentStatus == IF succeeded THEN "SUCCESS" ELSE "FAILED"
        message == IF succeeded THEN "Payment processed successfully."
                   ELSE "Payment failed due to insufficient funds."
        newPayment == [Id |-> paymentID,
                       OrderId |-> req.OrderId,
                       Amount |-> req.PaymentInfo.Amount,
                       Status |-> paymentStatus]
    IN  Reply(IF succeeded THEN Put(store, paymentID, newPayment) ELSE store,
              [PaymentId |-> paymentID, Status |-> paymentStatus, Message |-> message], OK)

\* succeeded: the outcome of rand.Intn(10) > 2.
ProcessPayment(store, req, succeeded) ==
    LET orderID == req.OrderId.Id
        paymentID == PaymentIdOf(orderID)
        paymentStatus == IF succeeded THEN "SUCCESS" ELSE "FAILED"
        message == IF succeeded THEN "Payment processed successfully."
                   ELSE "Payment failed due to insufficient funds."
        newPayment == [Id |-> paymentID,
                       OrderId |-> req.OrderId,
                       Amount |-> req.PaymentInfo.Amount,
                       Status |-> paymentStatus]
    IN  Reply(Put(store, paymentID, newPayment),
              [PaymentId |-> paymentID, Status |-> paymentStatus, Message |-> message], OK)

\* RefundPayment without the test for a payment that failed.
RefundPaymentAlsoFailed(store, req) ==
    LET orderID == req.OrderId.Id
        paymentID == req.PaymentId
    IN
    IF paymentID \notin DOMAIN store
    THEN Reply(store, NoMsg, "NotFound")
    ELSE IF store[paymentID].OrderId.Id # orderID
    THEN Reply(store, NoMsg, "InvalidArgument")
    ELSE IF store[paymentID].Status = "REFUNDED"
    THEN Reply(store, [Success |-> TRUE, Message |-> "Payment already refunded"], OK)
    ELSE Reply(SetStatus(store, paymentID, "REFUNDED"),
               [Success |-> TRUE, Message |-> "Payment refunded successfully"], OK)

\* RefundPayment refusing a payment that is refunded already.
RefundPaymentStrict(store, req) ==
    LET orderID == req.OrderId.Id
        paymentID == req.PaymentId
    IN
    IF paymentID \notin DOMAIN store
    THEN Reply(store, NoMsg, "NotFound")
    ELSE IF store[paymentID].OrderId.Id # orderID
    THEN Reply(store, NoMsg, "InvalidArgument")
    ELSE IF store[paymentID].Status = "REFUNDED"
    THEN Reply(store, NoMsg, "FailedPrecondition")
    ELSE IF store[paymentID].Status = "FAILED"
    THEN Reply(store, [Success |-> TRUE,
                       Message |-> "Payment originally failed, no refund needed"], OK)
    ELSE Reply(SetStatus(store, paymentID, "REFUNDED"),
               [Success |-> TRUE, Message |-> "Payment refunded successfully"], OK)

RefundPayment(store, req) ==
    LET orderID == req.OrderId.Id
        paymentID == req.PaymentId
    IN
    IF paymentID \notin DOMAIN store
    THEN Reply(store, NoMsg, "NotFound")
    ELSE IF store[paymentID].OrderId.Id # orderID
    THEN Reply(store, NoMsg, "InvalidArgument")
    ELSE IF store[paymentID].Status = "REFUNDED"
    THEN Reply(store, [Success |-> TRUE, Message |-> "Payment already refunded"], OK)
    ELSE IF store[paymentID].Status = "FAILED"
    THEN Reply(store, [Success |-> TRUE,
                       Message |-> "Payment originally failed, no refund needed"], OK)
    ELSE Reply(SetStatus(store, paymentID, "REFUNDED"),
               [Success |-> TRUE, Message |-> "Payment refunded successfully"], OK)

(***************************************************************************)
(* Shipping service                                                        *)
(***************************************************************************)
ShipmentIdOf(orderID) == "ship-" \o orderID

\* ArrangeShipping storing the record with its initial status, PENDING.
ArrangeShippingPending(store, req, succeeded) ==
    LET orderID == req.OrderId.Id
        shipmentID == ShipmentIdOf(orderID)
        newShipment == [Id |-> shipmentID,
                        OrderId |-> req.OrderId,
                        Address |-> req.Address,
                        Status |-> "PENDING"]
    IN
    IF ~succeeded
    THEN Reply(store, NoMsg, "Internal")
    ELSE Reply(Put(store, shipmentID, newShipment),
               [ShipmentId |-> shipmentID, Status |-> newShipment.Status], OK)

\* ArrangeShipping storing the record before the carrier is asked.
ArrangeShippingRecordFirst(store, req, succeeded) ==
    LET orderID == req.OrderId.Id
        shipmentID == ShipmentIdOf(orderID)
        newShipment == [Id |-> shipmentID,
                        OrderId |-> req.OrderId,
                        Address |-> req.Address,
                        Status |-> IF succeeded THEN "SHIPPED" ELSE "PENDING"]
    IN
    IF ~succeeded
    THEN Reply(Put(store, shipmentID, newShipment), NoMsg, "Internal")
    ELSE Reply(Put(store, shipmentID, newShipment),
               [ShipmentId |-> shipmentID, Status |-> newShipment.Status], OK)

\* succeeded: the outcome of rand.Intn(10) > 1.
ArrangeShipping(store, req, succeeded) ==
    LET orderID == req.OrderId.Id
        shipmentID == ShipmentIdOf(orderID)
        newShipment == [Id |-> shipmentID,
                        OrderId |-> req.OrderId,
                        Address |-> req.Address,
                        Status |-> "SHIPPED"]
    IN
    IF ~succeeded
    THEN Reply(store, NoMsg, "Internal")
    ELSE Reply(Put(store, shipmentID, newShipment),
               [ShipmentId |-> shipmentID, Status |-> newShipment.Status], OK)

\* CancelShipping without the check of the owning order.
CancelShippingAnyOwner(store, req) ==
    LET shipmentID == req.ShipmentId IN
    IF shipmentID \notin DOMAIN store
    THEN Reply(store, NoMsg, "NotFound")
    ELSE IF store[shipmentID].Status = "CANCELLED"
    THEN Reply(store, [Success |-> TRUE, Message |-> "Shipment already cancelled"], OK)
    ELSE Reply(SetStatus(store, shipmentID, "CANCELLED"),
               [Success |-> TRUE, Message |-> "Shipping cancelled successfully"], OK)

CancelShipping(store, req) ==
    LET orderID == req.OrderId.Id
        shipmentID == req.ShipmentId
    IN
    IF shipmentID \notin DOMAIN store
    THEN Reply(store, NoMsg, "NotFound")
    ELSE IF store[shipmentID].OrderId.Id # orderID
    THEN Reply(store, NoMsg, "InvalidArgument")
    ELSE IF store[shipmentID].Status = "CANCELLED"
    THEN Reply(store, [Success |-> TRUE, Message |-> "Shipment already cancelled"], OK)
    ELSE Reply(SetStatus(store, shipmentID, "CANCELLED"),
               [Success |-> TRUE, Message |-> "Shipping cancelled successfully"], OK)

(***************************************************************************)
(* Orchestrator                                                            *)
(***************************************************************************)
\* A remote call the orchestrator makes: the method, the request and the
\* context it is issued under ("saga": the caller's ctx; "fresh": a new
\* context.WithTimeout(context.Background(), 5*time.Second)).
Call(op, req, ctx) == [op |-> op, req |-> req, ctx |-> ctx]
NoCall == Call("none", NoMsg, "none")

\* &SagaState{}
EmptySagaState == [OrderID |-> NilOrderID, PaymentID |-> "", ShipmentID |-> ""]

\* compensateCreateOrder issuing CancelOrder under the caller's ctx.
compensateCreateOrderSagaCtx(orderID) ==
    IF orderID.isNil \/ orderID.Id = ""
    THEN NoCall
    ELSE Call("CancelOrder", [OrderId |-> orderID], "saga")

\* compensateCreateOrder without the check for a missing order id.
compensateCreateOrderNoSkip(orderID) ==
    Call("CancelOrder", [OrderId |-> orderID], "fresh")

compensateCreateOrder(orderID) ==
    IF orderID.isNil \/ orderID.Id = ""
    THEN NoCall
    ELSE Call("CancelOrder", [OrderId |-> orderID], "fresh")

\* compensateProcessPayment naming the order id as the payment id.
compensateProcessPaymentOrderKey(orderID, paymentID) ==
    IF paymentID = ""
    THEN NoCall
    ELSE Call("RefundPayment", [OrderId |-> orderID, PaymentId |-> orderID.Id], "fresh")

\* compensateProcessPayment without the check for an empty payment id.
compensateProcessPaymentNoSkip(orderID, paymentID) ==
    Call("RefundPayment", [OrderId |-> orderID, PaymentId |-> paymentID], "fresh")

compensateProcessPayment(orderID, paymentID) ==
    IF paymentID = ""
    THEN NoCall
    ELSE Call("RefundPayment", [OrderId |-> orderID, PaymentId |-> paymentID], "fresh")

\* compensateArrangeShipping deriving the shipment id from the order id
\* when none is recorded.
compensateArrangeShippingDerivedId(orderID, shipmentID) ==
    Call("CancelShipping",
         [OrderId |-> orderID,
          ShipmentId |-> IF shipmentID = "" THEN ShipmentIdOf(orderID.Id) ELSE shipmentID],
         "fresh")

compensateArrangeShipping(orderID, shipmentID) ==
    IF shipmentID = ""
    THEN NoCall
    ELSE Call("CancelShipping", [OrderId |-> orderID, ShipmentId |-> shipmentID], "fresh")

\* The lines of ExecuteCreateOrderSaga (orchestrator.go) at which it calls a
\* service or a compensate function, and those at which it returns.
ForwardLines == {"L43", "L60", "L84"}
CompensateLines == {"L48", "L68", "L71", "L95", "L98", "L99"}
FinalizeLines == {"L112"}
ReturnLines == {"R49", "R72", "R100", "R120"}

\* CallAt with CompleteOrder issued under the caller's ctx.
CallAtFinalizeSagaCtx(line, in, st) ==
    CASE line = "L43" -> Call("CreateOrder", [Details |-> in.details], "saga")
      [] line = "L60" -> Call("ProcessPayment",
                              [OrderId |-> st.OrderID, PaymentInfo |-> in.paymentInfo],
                              "saga")
      [] line = "L84" -> Call("ArrangeShipping",
                              [OrderId |-> st.OrderID, Address |-> in.shippingAddr],
                              "saga")
      [] line = "L112" -> Call("CompleteOrder", [OrderId |-> st.OrderID], "saga")
      [] line = "L48" -> compensateCreateOrder(st.OrderID)
      [] line = "L68" -> compensateProcessPayment(st.OrderID, st.PaymentID)
      [] line = "L71" -> compensateCreateOrder(st.OrderID)
      [] line = "L95" -> compensateArrangeShipping(st.OrderID, st.ShipmentID)
      [] line = "L98" -> compensateProcessPayment(st.OrderID, st.PaymentID)
      [] line = "L99" -> compensateCreateOrder(st.OrderID)

\* CallAt with the last two compensations of the shipping-failure chain
\* exchanged: the order is cancelled before the payment is refunded.
CallAtOrderFirst(line, in, st) ==
    CASE line = "L43" -> Call("CreateOrder", [Details |-> in.details], "saga")
      [] line = "L60" -> Call("ProcessPayment",
                              [OrderId |-> st.OrderID, PaymentInfo |-> in.paymentInfo],
                              "saga")
      [] line = "L84" -> Call("ArrangeShipping",
                              [OrderId |-> st.OrderID, Address |-> in.shippingAddr],
                              "saga")
      [] line = "L112" -> Call("CompleteOrder", [OrderId |-> st.OrderID], "fresh")
      [] line = "L48" -> compensateCreateOrder(st.OrderID)
      [] line = "L68" -> compensateProcessPayment(st.OrderID, st.PaymentID)
      [] line = "L71" -> compensateCreateOrder(st.OrderID)
      [] line = "L95" -> compensateArrangeShipping(st.OrderID, st.ShipmentID)
      [] line = "L98" -> compensateCreateOrder(st.OrderID)
      [] line = "L99" -> compensateProcessPayment(st.OrderID, st.PaymentID)

\* The remote call the statement at a line makes (NoCall: none is made).
CallAt(line, in, st) ==
    CASE line = "L43" -> Call("CreateOrder", [Details |-> in.details], "saga")
      [] line = "L60" -> Call("ProcessPayment",
                              [OrderId |-> st.OrderID, PaymentInfo |-> in.paymentInfo],
                              "saga")
      [] line = "L84" -> Call("ArrangeShipping",
                              [OrderId |-> st.OrderID, Address |-> in.shippingAddr],
                              "saga")
      [] line = "L112" -> Call("CompleteOrder", [OrderId |-> st.OrderID], "fresh")
      [] line = "L48" -> compensateCreateOrder(st.OrderID)
      [] line = "L68" -> compensateProcessPayment(st.OrderID, st.PaymentID)
      [] line = "L71" -> compensateCreateOrder(st.OrderID)
      [] line = "L95" -> compensateArrangeShipping(st.OrderID, st.ShipmentID)
      [] line = "L98" -> compensateProcessPayment(st.OrderID, st.PaymentID)
      [] line = "L99" -> compensateCreateOrder(st.OrderID)

\* The line reached when the compensate or finalize statement at a line is over.
Succ(line) ==
    CASE line = "L48" -> "R49"
      [] line = "L68" -> "L71"
      [] line = "L71" -> "R72"
      [] line = "L95" -> "L98"
      [] line = "L98" -> "L99"
      [] line = "L99" -> "R100"
      [] line = "L112" -> "R120"

\* ReturnValue naming the step whose compensation ran last, not the one that
\* failed: the failures of the payment and shipping steps read alike.
ReturnValueLastCompensated(line) ==
    CASE line = "R49" -> "failed to create order"
      [] line = "R72" -> "failed to process payment"
      [] line = "R100" -> "failed to process payment"
      [] line = "R120" -> "nil"

\* What ExecuteCreateOrderSaga returns at a return line (nil: success).
ReturnValue(line) ==
    CASE line = "R49" -> "failed to create order"
      [] line = "R72" -> "failed to process payment"
      [] line = "R100" -> "failed to arrange shipping"
      [] line = "R120" -> "nil"

\* From a line on, the first line at which the saga waits for a remote call
\* or returns: a compensate function that skips its call falls through.
RECURSIVE Stop(_, _, _)
Stop(line, in, st) ==
    IF line \in ReturnLines THEN line
    ELSE IF CallAt(line, in, st).op = "none" THEN Stop(Succ(line), in, st)
    ELSE line

IdleRpc == [op |-> "none", req |-> NoMsg, ctx |-> "none", stage |-> "idle",
            resp |-> NoMsg, err |-> OK]

Sent(call) == [op |-> call.op, req |-> call.req, ctx |-> call.ctx, stage |-> "sent",
               resp |-> NoMsg, err |-> OK]

LogEntry(line, call) == [line |-> line, op |-> call.op, req |-> call.req,
                         handled |-> FALSE, changed |-> FALSE,
                         resp |-> NoMsg, err |-> "pending"]

\* The call in flight of saga s is issued under a context that has expired.
CtxDone(s) == IF rpc[s].ctx = "saga" THEN sagaCtxDone[s] ELSE freshCtxDone[s]

\* The call in flight of saga s has an answer for the orchestrator.
Returned(s) == \/ rpc[s].stage = "replied"
               \/ rpc[s].stage = "sent" /\ CtxDone(s)

\* The (response, error) pair the client stub hands to the orchestrator.
Outcome(s) ==
    IF CtxDone(s) THEN [resp |-> NoMsg, err |-> "DeadlineExceeded"]
    ELSE [resp |-> rpc[s].resp, err |-> rpc[s].err]

\* The log with the outcome of the last call filled in.
Closed(log, out) == [log EXCEPT ![Len(log)].err = out.err, ![Len(log)].resp = out.resp]

\* Saga s, with saga state st and call log `log`, runs on from `line` to its
\* next remote call, which it issues, or to its return.
Goto(s, line, st, log) ==
    LET at == Stop(line, input[s], st)
        call == CallAt(at, input[s], st)
    IN  /\ state' = [state EXCEPT ![s] = st]
        /\ IF at \in ReturnLines
           THEN /\ pc' = [pc EXCEPT ![s] = "done"]
                /\ result' = [result EXCEPT ![s] = ReturnValue(at)]
                /\ rpc' = [rpc EXCEPT ![s] = IdleRpc]
                /\ calls' = [calls EXCEPT ![s] = log]
                /\ UNCHANGED freshCtxDone
           ELSE /\ pc' = [pc EXCEPT ![s] = at]
                /\ rpc' = [rpc EXCEPT ![s] = Sent(call)]
                /\ calls' = [calls EXCEPT ![s] = Append(log, LogEntry(at, call))]
                /\ freshCtxDone' = [freshCtxDone EXCEPT ![s] = FALSE]
                /\ UNCHANGED result

StartSaga(s) ==
    /\ pc[s] = "start"
    /\ Goto(s, "L43", EmptySagaState, <<>>)
    /\ UNCHANGED <<orders, payments, shipments, input, sagaCtxDone, runs, last, mu, handler>>

RetCreateOrder(s) ==
    /\ pc[s] = "L43"
    /\ Returned(s)
    /\ LET out == Outcome(s) IN
       IF out.err # OK
       THEN Goto(s, "L48", state[s], Closed(calls[s], out))
       ELSE Goto(s, "L60", [state[s] EXCEPT !.OrderID = out.resp.OrderId],
                 Closed(calls[s], out))
    /\ UNCHANGED <<orders, payments, shipments, input, sagaCtxDone, runs, last, mu, handler>>

\* paymentFailed without the check of the business status.
paymentFailedErrOnly(out) == out.err # OK

paymentFailed(out) ==
    out.err # OK \/ (out.resp # NoMsg /\ out.resp.Status = "FAILED")

\* RetProcessPayment issuing ProcessPayment again when it failed.
RetProcessPaymentRetry(s) ==
    /\ pc[s] = "L60"
    /\ Returned(s)
    /\ LET out == Outcome(s) IN
       IF paymentFailed(out)
       THEN Goto(s, "L60", state[s], Closed(calls[s], out))
       ELSE Goto(s, "L84", [state[s] EXCEPT !.PaymentID = out.resp.PaymentId],
                 Closed(calls[s], out))
    /\ UNCHANGED <<orders, payments, shipments, input, sagaCtxDone, runs, last, mu, handler>>

RetProcessPayment(s) ==
    /\ pc[s] = "L60"
    /\ Returned(s)
    /\ LET out == Outcome(s) IN
       IF paymentFailed(out)
       THEN Goto(s, "L68", state[s], Closed(calls[s], out))
       ELSE Goto(s, "L84", [state[s] EXCEPT !.PaymentID = out.resp.PaymentId],
                 Closed(calls[s], out))
    /\ UNCHANGED <<orders, payments, shipments, input, sagaCtxDone, runs, last, mu, handler>>

\* RetArrangeShipping going on to CompleteOrder whatever ArrangeShipping returned.
RetArrangeShippingIgnoringErr(s) ==
    /\ pc[s] = "L84"
    /\ Returned(s)
    /\ LET out == Outcome(s) IN
       Goto(s, "L112",
            IF out.err # OK THEN state[s]
            ELSE [state[s] EXCEPT !.ShipmentID = out.resp.ShipmentId],
            Closed(calls[s], out))
    /\ UNCHANGED <<orders, payments, shipments, input, sagaCtxDone, runs, last, mu, handler>>

RetArrangeShipping(s) ==
    /\ pc[s] = "L84"
    /\ Returned(s)
    /\ LET out == Outcome(s) IN
       IF out.err # OK
       THEN Goto(s, "L95", state[s], Closed(calls[s], out))
       ELSE Goto(s, "L112", [state[s] EXCEPT !.ShipmentID = out.resp.ShipmentId],
                 Closed(calls[s], out))
    /\ UNCHANGED <<orders, payments, shipments, input, sagaCtxDone, runs, last, mu, handler>>

\* RetCompleteOrder treating completeErr as a failed step: it compensates
\* and returns an error.
RetCompleteOrderCompensating(s) ==
    /\ pc[s] = "L112"
    /\ Returned(s)
    /\ Goto(s, IF Outcome(s).err # OK THEN "L95" ELSE Succ("L112"), state[s],
            Closed(calls[s], Outcome(s)))
    /\ UNCHANGED <<orders, payments, shipments, input, sagaCtxDone, runs, last, mu, handler>>

\* completeErr is logged; the saga returns nil either way.
RetCompleteOrder(s) ==
    /\ pc[s] = "L112"
    /\ Returned(s)
    /\ Goto(s, Succ("L112"), state[s], Closed(calls[s], Outcome(s)))
    /\ UNCHANGED <<orders, payments, shipments, input, sagaCtxDone, runs, last, mu, handler>>

\* RetCompensate repeating the compensating call that returned an error.
RetCompensateRetry(s) ==
    /\ pc[s] \in CompensateLines
    /\ Returned(s)
    /\ Goto(s, IF Outcome(s).err # OK THEN pc[s] ELSE Succ(pc[s]), state[s],
            Closed(calls[s], Outcome(s)))
    /\ UNCHANGED <<orders, payments, shipments, input, sagaCtxDone, runs, last, mu, handler>>

\* A compensate function gets the answer of its call: the error is logged
\* and the function returns to ExecuteCreateOrderSaga.
RetCompensate(s) ==
    /\ pc[s] \in CompensateLines
    /\ Returned(s)
    /\ Goto(s, Succ(pc[s]), state[s], Closed(calls[s], Outcome(s)))
    /\ UNCHANGED <<orders, payments, shipments, input, sagaCtxDone, runs, last, mu, handler>>

(***************************************************************************)
(* Services handling the calls in flight                                   *)
(***************************************************************************)
OrderOps == {"CreateOrder", "CancelOrder", "CompleteOrder"}
PaymentOps == {"ProcessPayment", "RefundPayment"}
ShippingOps == {"ArrangeShipping", "CancelShipping"}

\* A request reaches its service only while the caller's context is live.
Arrives(s, ops) == /\ rpc[s].stage = "sent"
                   /\ rpc[s].op \in ops
                   /\ ~CtxDone(s)

Replied(s, r, before) ==
    /\ rpc' = [rpc EXCEPT ![s].stage = "replied", ![s].resp = r.resp, ![s].err = r.err]
    /\ calls' = [calls EXCEPT ![s][Len(calls[s])].handled = TRUE,
                              ![s][Len(calls[s])].changed = (r.store # before)]

OrderService(s) ==
    /\ Arrives(s, OrderOps)
    /\ LET r == CASE rpc[s].op = "CreateOrder" -> CreateOrder(orders, rpc[s].req)
                  [] rpc[s].op = "CancelOrder" -> CancelOrder(orders, rpc[s].req)
                  [] rpc[s].op = "CompleteOrder" -> CompleteOrder(orders, rpc[s].req)
       IN  /\ orders' = r.store
           /\ Replied(s, r, orders)
    /\ UNCHANGED <<payments, shipments, pc, input, state, sagaCtxDone, freshCtxDone, result, runs, last, mu, handler>>

PaymentService(s) ==
    /\ Arrives(s, PaymentOps)
    /\ \E succeeded \in IF rpc[s].op = "ProcessPayment" THEN BOOLEAN ELSE {TRUE} :
         LET r == CASE rpc[s].op = "ProcessPayment" ->
                            ProcessPayment(payments, rpc[s].req, succeeded)
                    [] rpc[s].op = "RefundPayment" -> RefundPayment(payments, rpc[s].req)
         IN  /\ payments' = r.store
             /\ Replied(s, r, payments)
    /\ UNCHANGED <<orders, shipments, pc, input, state, sagaCtxDone, freshCtxDone, result, runs, last, mu, handler>>

ShippingService(s) ==
    /\ Arrives(s, ShippingOps)
    /\ \E succeeded \in IF rpc[s].op = "ArrangeShipping" THEN BOOLEAN ELSE {TRUE} :
         LET r == CASE rpc[s].op = "ArrangeShipping" ->
                            ArrangeShipping(shipments, rpc[s].req, succeeded)
                    [] rpc[s].op = "CancelShipping" -> CancelShipping(shipments, rpc[s].req)
         IN  /\ shipments' = r.store
             /\ Replied(s, r, shipments)
    /\ UNCHANGED <<orders, payments, pc, input, state, sagaCtxDone, freshCtxDone, result, runs, last, mu, handler>>

(***************************************************************************)
(* Transport and deadlines                                                 *)
(***************************************************************************)
\* The request (stage "sent") or the answer (stage "replied") is lost: the
\* client stub reports Unavailable.
NetFault(s) ==
    /\ rpc[s].stage \in {"sent", "replied"}
    /\ rpc[s].err \notin TransportCodes
    /\ rpc' = [rpc EXCEPT ![s].stage = "replied", ![s].resp = NoMsg,
                          ![s].err = "Unavailable"]
    /\ UNCHANGED <<orders, payments, shipments, pc, input, state,
                   sagaCtxDone, freshCtxDone, result, calls, runs, last, mu, handler>>

\* The deadline of the ctx passed to ExecuteCreateOrderSaga passes.
SagaDeadline(s) ==
    /\ pc[s] \notin {"off", "done"}
    /\ ~sagaCtxDone[s]
    /\ sagaCtxDone' = [sagaCtxDone EXCEPT ![s] = TRUE]
    /\ UNCHANGED <<orders, payments, shipments, pc, input, state, rpc,
                   freshCtxDone, result, calls, runs, last, mu, handler>>

\* The 5 s timeout of the context of a compensating or finalize call passes.
FreshDeadline(s) ==
    /\ rpc[s].stage \in {"sent", "replied"}
    /\ rpc[s].ctx = "fresh"
    /\ ~freshCtxDone[s]
    /\ freshCtxDone' = [freshCtxDone EXCEPT ![s] = TRUE]
    /\ UNCHANGED <<orders, payments, shipments, pc, input, state, rpc,
                   sagaCtxDone, result, calls, runs, last, mu, handler>>

\* The orchestrator process has ended and is started again, against the
\* services as the earlier run left them, with arguments of the caller's choice.
RunAgain(s) ==
    /\ pc[s] = "done"
    /\ runs[s] < MaxRuns
    /\ \E in \in SagaInputs : input' = [input EXCEPT ![s] = in]
    /\ pc' = [pc EXCEPT ![s] = "start"]
    /\ state' = [state EXCEPT ![s] = EmptySagaState]
    /\ rpc' = [rpc EXCEPT ![s] = IdleRpc]
    /\ sagaCtxDone' = [sagaCtxDone EXCEPT ![s] = FALSE]
    /\ freshCtxDone' = [freshCtxDone EXCEPT ![s] = FALSE]
    /\ result' = [result EXCEPT ![s] = "none"]
    /\ calls' = [calls EXCEPT ![s] = <<>>]
    /\ runs' = [runs EXCEPT ![s] = runs[s] + 1]
    /\ UNCHANGED <<orders, payments, shipments, last, mu, handler>>

(***************************************************************************)
(* Clients that call the services directly                                 *)
(***************************************************************************)
\* The record of a direct call: the method, the request, the store of the
\* service as the handler found it, and the answer.
Direct(op, req, before, r) ==
    [op |-> op, req |-> req, before |-> before, resp |-> r.resp, err |-> r.err]

NoDirect == [op |-> "none", req |-> NoMsg, before |-> <<>>, resp |-> NoMsg, err |-> OK]

\* The order ids a client names: those of the two users and one that
\* CreateOrder never produced.
ClientOrderIds == {OrderIdOf("u1"), OrderIdOf("u2"), OrderIdOf("u3")}

OrderRequests(op) ==
    IF op = "CreateOrder"
    THEN {[Details |-> in.details] : in \in SagaInputs}
    ELSE {[OrderId |-> OrderID(id)] : id \in ClientOrderIds}

PaymentRequests(op) ==
    IF op = "ProcessPayment"
    THEN {[OrderId |-> OrderID(OrderIdOf(in.details.UserId)), PaymentInfo |-> in.paymentInfo] :
             in \in SagaInputs}
    ELSE {[OrderId |-> OrderID(id), PaymentId |-> PaymentIdOf(of)] :
             id \in ClientOrderIds, of \in ClientOrderIds}

ShippingRequests(op) ==
    IF op = "ArrangeShipping"
    THEN {[OrderId |-> OrderID(OrderIdOf(in.details.UserId)), Address |-> in.shippingAddr] :
             in \in SagaInputs}
    ELSE {[OrderId |-> OrderID(id), ShipmentId |-> ShipmentIdOf(of)] :
             id \in ClientOrderIds, of \in ClientOrderIds}

\* OrderClient with a CancelOrder that also cancels the shipments of the order.
OrderClientCascading ==
    /\ \E op \in OrderOps : \E req \in OrderRequests(op) :
         LET r == CASE op = "CreateOrder" -> CreateOrder(orders, req)
                    [] op = "CancelOrder" -> CancelOrder(orders, req)
                    [] op = "CompleteOrder" -> CompleteOrder(orders, req)
         IN  /\ orders' = r.store
             /\ last' = Direct(op, req, orders, r)
             /\ shipments' =
                   IF op = "CancelOrder"
                   THEN [k \in DOMAIN shipments |->
                           IF shipments[k].OrderId = req.OrderId
                           THEN [shipments[k] EXCEPT !.Status = "CANCELLED"]
                           ELSE shipments[k]]
                   ELSE shipments
    /\ UNCHANGED <<payments, pc, input, state, rpc,
                   sagaCtxDone, freshCtxDone, result, calls, runs, mu, handler>>

\* A client calls a method of the Order service; the call is handled and answered.
OrderClient ==
    /\ \E op \in OrderOps : \E req \in OrderRequests(op) :
         LET r == CASE op = "CreateOrder" -> CreateOrder(orders, req)
                    [] op = "CancelOrder" -> CancelOrder(orders, req)
                    [] op = "CompleteOrder" -> CompleteOrder(orders, req)
         IN  /\ orders' = r.store
             /\ last' = Direct(op, req, orders, r)
    /\ UNCHANGED <<payments, shipments, pc, input, state, rpc,
                   sagaCtxDone, freshCtxDone, result, calls, runs, mu, handler>>

PaymentClient ==
    /\ \E op \in PaymentOps : \E req \in PaymentRequests(op) :
       \E succeeded \in IF op = "ProcessPayment" THEN BOOLEAN ELSE {TRUE} :
         LET r == CASE op = "ProcessPayment" -> ProcessPayment(payments, req, succeeded)
                    [] op = "RefundPayment" -> RefundPayment(payments, req)
         IN  /\ payments' = r.store
             /\ last' = Direct(op, req, payments, r)
    /\ UNCHANGED <<orders, shipments, pc, input, state, rpc,
                   sagaCtxDone, freshCtxDone, result, calls, runs, mu, handler>>

ShippingClient ==
    /\ \E op \in ShippingOps : \E req \in ShippingRequests(op) :
       \E succeeded \in IF op = "ArrangeShipping" THEN BOOLEAN ELSE {TRUE} :
         LET r == CASE op = "ArrangeShipping" -> ArrangeShipping(shipments, req, succeeded)
                    [] op = "CancelShipping" -> CancelShipping(shipments, req)
         IN  /\ shipments' = r.store
             /\ last' = Direct(op, req, shipments, r)
    /\ UNCHANGED <<orders, payments, pc, input, state, rpc,
                   sagaCtxDone, freshCtxDone, result, calls, runs, mu, handler>>

(***************************************************************************)
(* Handlers step by step: the store lock                                   *)
(***************************************************************************)
\* Handler goroutines that serve calls at the same time.
NumHandlers == 2

Handlers == 1..NumHandlers

Services == {"order", "payment", "shipping"}

ServiceOf(op) ==
    IF op \in OrderOps THEN "order"
    ELSE IF op \in PaymentOps THEN "payment"
    ELSE "shipping"

StoreOf(svc) ==
    IF svc = "order" THEN orders
    ELSE IF svc = "payment" THEN payments
    ELSE shipments

IdleHandler == [pc |-> "idle", op |-> "none", req |-> NoMsg, succeeded |-> TRUE,
                seen |-> NoMsg]

\* The handlers that look a record up, check it and write its status.
CheckingOps == {"CancelOrder", "CompleteOrder", "RefundPayment", "CancelShipping"}

\* The calls the handler goroutines serve: those for the order of one user.
HandlerCalls ==
    LET in == CHOOSE i \in SagaInputs : i.details.UserId = "u1"
        oid == OrderID(OrderIdOf("u1"))
    IN  { Call("CreateOrder", [Details |-> in.details], "none"),
          Call("CancelOrder", [OrderId |-> oid], "none"),
          Call("CompleteOrder", [OrderId |-> oid], "none"),
          Call("ProcessPayment", [OrderId |-> oid, PaymentInfo |-> in.paymentInfo], "none"),
          Call("RefundPayment", [OrderId |-> oid, PaymentId |-> PaymentIdOf(oid.Id)], "none"),
          Call("ArrangeShipping", [OrderId |-> oid, Address |-> in.shippingAddr], "none"),
          Call("CancelShipping", [OrderId |-> oid, ShipmentId |-> ShipmentIdOf(oid.Id)],
               "none") }

\* What a handler returns for a call, given the store it finds.
Handle(op, store, req, succeeded) ==
    CASE op = "CreateOrder" -> CreateOrder(store, req)
      [] op = "CancelOrder" -> CancelOrder(store, req)
      [] op = "CompleteOrder" -> CompleteOrder(store, req)
      [] op = "ProcessPayment" -> ProcessPayment(store, req, succeeded)
      [] op = "RefundPayment" -> RefundPayment(store, req)
      [] op = "ArrangeShipping" -> ArrangeShipping(store, req, succeeded)
      [] op = "CancelShipping" -> CancelShipping(store, req)

\* The key under which a checking handler looks its record up.
KeyOf(op, req) ==
    IF op \in {"CancelOrder", "CompleteOrder"} THEN req.OrderId.Id
    ELSE IF op = "RefundPayment" THEN req.PaymentId
    ELSE req.ShipmentId

\* The status a checking handler assigns.
TargetStatus(op) ==
    IF op = "CompleteOrder" THEN "COMPLETED"
    ELSE IF op = "RefundPayment" THEN "REFUNDED"
    ELSE "CANCELLED"

StoresBecome(svc, store) ==
    /\ orders' = IF svc = "order" THEN store ELSE orders
    /\ payments' = IF svc = "payment" THEN store ELSE payments
    /\ shipments' = IF svc = "shipping" THEN store ELSE shipments

SagasUnchanged ==
    UNCHANGED <<pc, input, state, rpc, sagaCtxDone, freshCtxDone, result, calls, runs, last>>

\* gRPC starts a goroutine for a call.  An ArrangeShipping that draws the
\* carrier failure returns before it touches the lock and is left out.
Invoke(t) ==
    /\ handler[t].pc = "idle"
    /\ \E call \in HandlerCalls :
       \E succeeded \in IF call.op = "ProcessPayment" THEN BOOLEAN ELSE {TRUE} :
         handler' = [handler EXCEPT ![t] = [pc |-> "called", op |-> call.op,
                                            req |-> call.req, succeeded |-> succeeded,
                                            seen |-> NoMsg]]
    /\ UNCHANGED <<orders, payments, shipments, mu>>
    /\ SagasUnchanged

\* s.mu.Lock()
AcquireLock(t) ==
    /\ handler[t].pc = "called"
    /\ mu[ServiceOf(handler[t].op)] = 0
    /\ mu' = [mu EXCEPT ![ServiceOf(handler[t].op)] = t]
    /\ handler' = [handler EXCEPT ![t].pc = "locked"]
    /\ UNCHANGED <<orders, payments, shipments>>
    /\ SagasUnchanged

\* CheckRecord letting go of the lock between the checks and the write.
CheckRecordUnlocking(t) ==
    /\ handler[t].pc = "locked"
    /\ handler[t].op \in CheckingOps
    /\ LET h == handler[t]
           svc == ServiceOf(h.op)
           r == Handle(h.op, StoreOf(svc), h.req, h.succeeded)
       IN  /\ mu' = [mu EXCEPT ![svc] = 0]
           /\ IF r.store = StoreOf(svc)
              THEN handler' = [handler EXCEPT ![t] = IdleHandler]
              ELSE handler' = [handler EXCEPT ![t].pc = "write",
                                              ![t].seen = StoreOf(svc)[KeyOf(h.op, h.req)]]
    /\ UNCHANGED <<orders, payments, shipments>>
    /\ SagasUnchanged

\* CheckRecord returning on its nothing-to-write paths with the lock held.
CheckRecordKeepingLock(t) ==
    /\ handler[t].pc = "locked"
    /\ handler[t].op \in CheckingOps
    /\ LET h == handler[t]
           svc == ServiceOf(h.op)
           r == Handle(h.op, StoreOf(svc), h.req, h.succeeded)
       IN  IF r.store = StoreOf(svc)
           THEN handler' = [handler EXCEPT ![t] = IdleHandler]
           ELSE handler' = [handler EXCEPT ![t].pc = "write",
                                           ![t].seen = StoreOf(svc)[KeyOf(h.op, h.req)]]
    /\ UNCHANGED <<orders, payments, shipments, mu>>
    /\ SagasUnchanged

\* The lookup and the owner and status checks of a checking handler: it
\* unlocks and returns when there is nothing to write, and goes on to the
\* write, the lock still held, when there is.
CheckRecord(t) ==
    /\ handler[t].pc = "locked"
    /\ handler[t].op \in CheckingOps
    /\ LET h == handler[t]
           svc == ServiceOf(h.op)
           r == Handle(h.op, StoreOf(svc), h.req, h.succeeded)
       IN  IF r.store = StoreOf(svc)
           THEN /\ mu' = [mu EXCEPT ![svc] = 0]
                /\ handler' = [handler EXCEPT ![t] = IdleHandler]
           ELSE /\ mu' = mu
                /\ handler' = [handler EXCEPT ![t].pc = "write",
                                               ![t].seen = StoreOf(svc)[KeyOf(h.op, h.req)]]
    /\ UNCHANGED <<orders, payments, shipments>>
    /\ SagasUnchanged

\* The write and s.mu.Unlock(): a checking handler assigns the status, a
\* forward handler stores its record.
WriteRecord(t) ==
    /\ \/ handler[t].pc = "write"
       \/ handler[t].pc = "locked" /\ handler[t].op \notin CheckingOps
    /\ LET h == handler[t]
           svc == ServiceOf(h.op)
       IN  /\ StoresBecome(svc,
                  IF h.op \in CheckingOps
                  THEN SetStatus(StoreOf(svc), KeyOf(h.op, h.req), TargetStatus(h.op))
                  ELSE Handle(h.op, StoreOf(svc), h.req, h.succeeded).store)
           /\ mu' = [mu EXCEPT ![svc] = 0]
    /\ handler' = [handler EXCEPT ![t] = IdleHandler]
    /\ SagasUnchanged

(***************************************************************************)
(* Specifications                                                          *)
(***************************************************************************)
EmptyStore == <<>>

\* The services as NewServer leaves them, and the sagas of `active` about to
\* run, each with arguments of its caller's choice.
InitWith(active) ==
    /\ orders = EmptyStore
    /\ payments = EmptyStore
    /\ shipments = EmptyStore
    /\ pc = [s \in Sagas |-> IF s \in active THEN "start" ELSE "off"]
    /\ input \in {f \in [Sagas -> SagaInputs \cup {NoMsg}] :
                    \A s \in Sagas : (f[s] = NoMsg) <=> (s \notin active)}
    /\ state = [s \in Sagas |-> EmptySagaState]
    /\ rpc = [s \in Sagas |-> IdleRpc]
    /\ sagaCtxDone = [s \in Sagas |-> FALSE]
    /\ freshCtxDone = [s \in Sagas |-> FALSE]
    /\ result = [s \in Sagas |-> "none"]
    /\ calls = [s \in Sagas |-> <<>>]
    /\ runs = [s \in Sagas |-> IF s \in active THEN 1 ELSE 0]
    /\ last = NoDirect
    /\ mu = [svc \in Services |-> 0]
    /\ handler = [t \in Handlers |-> IdleHandler]

\* One orchestrator: main runs a single saga at a time.
Init == InitWith({1})

Next ==
    \E s \in Sagas :
        \/ StartSaga(s)
        \/ RetCreateOrder(s)
        \/ RetProcessPayment(s)
        \/ RetArrangeShipping(s)
        \/ RetCompleteOrder(s)
        \/ RetCompensate(s)
        \/ OrderService(s)
        \/ PaymentService(s)
        \/ ShippingService(s)
        \/ NetFault(s)
        \/ SagaDeadline(s)
        \/ FreshDeadline(s)
        \/ RunAgain(s)

Spec == Init /\ [][Next]_vars

\* Two orchestrator processes, each running one saga, against the same
\* services: their remote calls interleave in every way.  The transport may
\* lose a request or an answer; no deadline passes.
InitConc == InitWith(Sagas)

NextConc ==
    \E s \in Sagas :
        \/ StartSaga(s)
        \/ RetCreateOrder(s)
        \/ RetProcessPayment(s)
        \/ RetArrangeShipping(s)
        \/ RetCompleteOrder(s)
        \/ RetCompensate(s)
        \/ OrderService(s)
        \/ PaymentService(s)
        \/ ShippingService(s)
        \/ NetFault(s)

SpecConc == InitConc /\ [][NextConc]_vars

\* The three services and clients that call their methods one at a time, in
\* any order and with any of the requests; no orchestrator runs.
InitStore == InitWith({})

NextStore == OrderClient \/ PaymentClient \/ ShippingClient

SpecStore == InitStore /\ [][NextStore]_vars

\* The three services serving calls in concurrent goroutines, each handler
\* taken step by step; no orchestrator runs.
InitLock == InitWith({})

NextLock ==
    \E t \in Handlers :
        \/ Invoke(t)
        \/ AcquireLock(t)
        \/ CheckRecord(t)
        \/ WriteRecord(t)

SpecLock == InitLock /\ [][NextLock]_vars

(***************************************************************************)
(* Reading the call log of a saga                                          *)
(***************************************************************************)
CompensatingOps == {"CancelShipping", "RefundPayment", "CancelOrder"}

IsPrefix(a, b) == Len(a) <= Len(b) /\ a = SubSeq(b, 1, Len(a))

IsCompensating(e) == e.op \in CompensatingOps

\* The compensating calls saga s has issued, in the order of issue.
CompLog(s) == SelectSeq(calls[s], IsCompensating)

OpNames(log) == [i \in 1..Len(log) |-> log[i].op]

CallsOf(s, op) == {i \in 1..Len(calls[s]) : calls[s][i].op = op}

Over(e) == e.err # "pending"

Erred(e) == e.err \notin {"pending", OK}

\* The forward call succeeded as the orchestrator sees it.
Succeeded(e) ==
    /\ e.err = OK
    /\ e.op = "ProcessPayment" => e.resp.Status = "SUCCESS"

ForwardOk(s, op) == \E i \in CallsOf(s, op) : Succeeded(calls[s][i])

ForwardFailed(s, op) ==
    \E i \in CallsOf(s, op) : Over(calls[s][i]) /\ ~Succeeded(calls[s][i])

\* ProcessPayment came back without error and with business status FAILED.
BusinessFailed(s) ==
    \E i \in CallsOf(s, "ProcessPayment") :
        calls[s][i].err = OK /\ calls[s][i].resp.Status = "FAILED"

Returned_(s) == pc[s] = "done"

\* The order id of the saga: the one CreateOrder derives from its user id.
SagaOrderId(s) == OrderIdOf(input[s].details.UserId)

(***************************************************************************)
(* Claims                                                                  *)
(***************************************************************************)
ShippingFailed(s) ==
    /\ ForwardOk(s, "CreateOrder")
    /\ ForwardOk(s, "ProcessPayment")
    /\ ForwardFailed(s, "ArrangeShipping")

\* C1: when CreateOrder and ProcessPayment succeeded and ArrangeShipping
\* failed, the compensating calls are CancelShipping (only with a recorded
\* shipment id), RefundPayment, CancelOrder, in this order, each issued once,
\* for the saga's own ids, and each only after the one before has returned.
C1_ReverseOrderCompensation ==
    \A s \in Sagas :
        ShippingFailed(s) =>
            LET comp == CompLog(s)
                expected == (IF state[s].ShipmentID # "" THEN <<"CancelShipping">> ELSE <<>>)
                            \o <<"RefundPayment", "CancelOrder">>
            IN  /\ Len(comp) >= 1
                /\ IsPrefix(OpNames(comp), expected)
                /\ Returned_(s) => OpNames(comp) = expected
                /\ \A i \in 2..Len(comp) : Over(comp[i - 1])
                /\ \A i \in 1..Len(comp) :
                      /\ comp[i].req.OrderId = state[s].OrderID
                      /\ comp[i].op = "RefundPayment" =>
                            comp[i].req.PaymentId = state[s].PaymentID

C1_Witness ==
    \E s \in Sagas :
        /\ Returned_(s)
        /\ ShippingFailed(s)
        /\ OpNames(CompLog(s)) = <<"RefundPayment", "CancelOrder">>
        /\ result[s] = "failed to arrange shipping"

\* C2: when ProcessPayment fails with no payment id recorded, the saga never
\* invokes RefundPayment, and it has invoked CancelOrder exactly once, for
\* its order id, when it returns its failure.
C2_SkipRefundOnMissingId ==
    \A s \in Sagas :
        (ForwardFailed(s, "ProcessPayment") /\ state[s].PaymentID = "") =>
            /\ CallsOf(s, "RefundPayment") = {}
            /\ Cardinality(CallsOf(s, "CancelOrder")) = 1
            /\ \A i \in CallsOf(s, "CancelOrder") :
                  calls[s][i].req.OrderId = OrderID(SagaOrderId(s))
            /\ Returned_(s) =>
                  /\ result[s] = "failed to process payment"
                  /\ \A i \in CallsOf(s, "CancelOrder") : Over(calls[s][i])

C2_Witness ==
    \E s \in Sagas :
        /\ Returned_(s)
        /\ ForwardFailed(s, "ProcessPayment")
        /\ state[s].PaymentID = ""
        /\ OpNames(CompLog(s)) = <<"CancelOrder">>

\* The entries of the log of saga s for a method.
Entries(s, op) == {calls[s][i] : i \in CallsOf(s, op)}

\* A call of the method by saga s was handled by its service.
Handled(s, op) == \E e \in Entries(s, op) : e.handled

OrderOf(s) == orders[SagaOrderId(s)]
PaymentOf(s) == payments[PaymentIdOf(SagaOrderId(s))]
ShipmentOf(s) == shipments[ShipmentIdOf(SagaOrderId(s))]

\* C3: after a ProcessPayment that came back with business status FAILED the
\* saga calls RefundPayment for the returned payment id, the Payment store
\* answers success without a mutation, and CancelOrder comes only after it.
C3_RefundAttemptedOnBusinessFailure ==
    \A s \in Sagas :
        (Returned_(s) /\ BusinessFailed(s)) =>
            \E i \in CallsOf(s, "RefundPayment") :
                /\ calls[s][i].req.PaymentId = PaymentIdOf(SagaOrderId(s))
                /\ calls[s][i].err = OK
                /\ ~calls[s][i].changed
                /\ \A j \in CallsOf(s, "CancelOrder") : i < j

AllForwardOk(s) ==
    /\ ForwardOk(s, "CreateOrder")
    /\ ForwardOk(s, "ProcessPayment")
    /\ ForwardOk(s, "ArrangeShipping")

\* C4 as stated: a saga whose three forward calls succeeded returns success
\* with its order COMPLETED, its payment SUCCESS and its shipment SHIPPED.
C4_SuccessLeavesCompleted ==
    \A s \in Sagas :
        (Returned_(s) /\ AllForwardOk(s)) =>
            /\ result[s] = "nil"
            /\ OrderOf(s).Status = "COMPLETED"
            /\ PaymentOf(s).Status = "SUCCESS"
            /\ ShipmentOf(s).Status = "SHIPPED"

\* C4 as amended: a saga whose three forward calls succeeded returns success
\* with its payment SUCCESS and its shipment SHIPPED; its order is COMPLETED
\* if the CompleteOrder call reached the Order service and PENDING if not.
C4_SuccessLeavesCompletedIfFinalized ==
    \A s \in Sagas :
        (Returned_(s) /\ AllForwardOk(s)) =>
            /\ result[s] = "nil"
            /\ OrderOf(s).Status =
                  IF Handled(s, "CompleteOrder") THEN "COMPLETED" ELSE "PENDING"
            /\ \A e \in Entries(s, "CompleteOrder") : e.err = OK => e.handled
            /\ PaymentOf(s).Status = "SUCCESS"
            /\ ShipmentOf(s).Status = "SHIPPED"

C4_Witness ==
    \E s \in Sagas :
        /\ Returned_(s)
        /\ AllForwardOk(s)
        /\ result[s] = "nil"
        /\ \E e \in Entries(s, "CompleteOrder") : e.err = OK
        /\ OrderOf(s).Status = "COMPLETED"

PaymentRejected(s) == ForwardOk(s, "CreateOrder") /\ BusinessFailed(s)

NoShipmentFor(orderID) ==
    \A k \in DOMAIN shipments : shipments[k].OrderId.Id # orderID

\* C5 as stated: when ProcessPayment returns business status FAILED the saga
\* returns "failed to process payment", its order ends CANCELLED,
\* ArrangeShipping is never invoked and the order has no Shipment record.
C5_PaymentFailureCancelsOrder ==
    \A s \in Sagas :
        (Returned_(s) /\ PaymentRejected(s)) =>
            /\ result[s] = "failed to process payment"
            /\ OrderOf(s).Status = "CANCELLED"
            /\ CallsOf(s, "ArrangeShipping") = {}
            /\ NoShipmentFor(SagaOrderId(s))

\* C5 as amended: ... its order ends CANCELLED if the CancelOrder call
\* reached the Order service and is left PENDING if not; ArrangeShipping is
\* never invoked and the saga stores no Shipment record (the Shipment store
\* stays as it was, with whatever an earlier saga left under the order id).
C5_PaymentFailureCancelsOrderIfDelivered ==
    /\ [](\A s \in Sagas :
            PaymentRejected(s) =>
                /\ CallsOf(s, "ArrangeShipping") = {}
                /\ Returned_(s) =>
                      /\ result[s] = "failed to process payment"
                      /\ OrderOf(s).Status =
                            IF Handled(s, "CancelOrder") THEN "CANCELLED" ELSE "PENDING"
                      /\ \A e \in Entries(s, "CancelOrder") : e.err = OK => e.handled)
    /\ [][\A s \in Sagas : PaymentRejected(s) => shipments' = shipments]_vars

C5_Witness ==
    \E s \in Sagas :
        /\ Returned_(s)
        /\ PaymentRejected(s)
        /\ result[s] = "failed to process payment"
        /\ \E e \in Entries(s, "CancelOrder") : e.err = OK
        /\ OrderOf(s).Status = "CANCELLED"
        /\ CallsOf(s, "ArrangeShipping") = {}

\* Every compensating call saga s issued returned success.
CompensationsOk(s) == \A i \in 1..Len(CompLog(s)) : CompLog(s)[i].err = OK

\* C6: a saga that returned failure with every compensating call it issued
\* successful left no forward effect: no payment of its order in SUCCESS, no
\* shipment of its order in SHIPPED, its order (if any) not in PENDING.
C6_FailureLeavesNoForwardEffect ==
    \A s \in Sagas :
        (Returned_(s) /\ result[s] # "nil" /\ CompensationsOk(s)) =>
            /\ \A k \in DOMAIN payments :
                  payments[k].OrderId.Id = SagaOrderId(s) => payments[k].Status # "SUCCESS"
            /\ \A k \in DOMAIN shipments :
                  shipments[k].OrderId.Id = SagaOrderId(s) => shipments[k].Status # "SHIPPED"
            /\ SagaOrderId(s) \in DOMAIN orders => OrderOf(s).Status # "PENDING"

\* C7: ArrangeShipping is issued only right after a ProcessPayment that
\* returned no error and status SUCCESS; after a ProcessPayment that returned
\* an error or a non-success status the saga issues CancelOrder and nothing
\* else, whichever of the two it was.
C7_AdvanceOnlyOnPaymentSuccess ==
    \A s \in Sagas :
        /\ \A i \in CallsOf(s, "ArrangeShipping") :
              /\ i > 1
              /\ calls[s][i - 1].op = "ProcessPayment"
              /\ calls[s][i - 1].err = OK
              /\ calls[s][i - 1].resp.Status = "SUCCESS"
        /\ \A i \in CallsOf(s, "ProcessPayment") :
              (Over(calls[s][i]) /\ ~Succeeded(calls[s][i])) =>
                  /\ OpNames(SubSeq(calls[s], i + 1, Len(calls[s]))) = <<"CancelOrder">>
                  /\ Returned_(s) => result[s] = "failed to process payment"

\* Both kinds of payment failure have been seen to take the compensation path.
C7_Witness ==
    \E s \in Sagas :
        /\ Returned_(s)
        /\ BusinessFailed(s)
        /\ CallsOf(s, "ArrangeShipping") = {}
        /\ OpNames(CompLog(s)) = <<"CancelOrder">>

\* The result of the step that failed, as if compensation had succeeded.
StepFailure(s) ==
    IF ForwardFailed(s, "CreateOrder") THEN "failed to create order"
    ELSE IF ForwardFailed(s, "ProcessPayment") THEN "failed to process payment"
    ELSE "failed to arrange shipping"

\* C8: a compensating call that returned an error is not repeated, the next
\* compensating call of the chain is issued all the same, and the saga
\* returns the failure of the forward step that failed.
C8_CompensationBestEffort ==
    \A s \in Sagas :
        \A i \in 1..Len(calls[s]) :
            (IsCompensating(calls[s][i]) /\ Erred(calls[s][i])) =>
                /\ \A j \in 1..Len(calls[s]) : calls[s][j].op = calls[s][i].op => j = i
                /\ calls[s][i].op = "RefundPayment" =>
                      /\ Len(calls[s]) = i + 1
                      /\ calls[s][i + 1].op = "CancelOrder"
                /\ calls[s][i].op = "CancelOrder" => (Len(calls[s]) = i /\ Returned_(s))
                /\ Returned_(s) => result[s] = StepFailure(s)

C8_Witness ==
    \E s \in Sagas :
        /\ Returned_(s)
        /\ \E e \in Entries(s, "RefundPayment") : Erred(e)
        /\ \E e \in Entries(s, "CancelOrder") : Erred(e)
        /\ result[s] = "failed to arrange shipping"

\* The refund of saga s failed before the Payment service applied it, and
\* its CancelOrder succeeded.
RefundLostCancelOk(s) ==
    /\ Returned_(s)
    /\ ShippingFailed(s)
    /\ \E e \in Entries(s, "RefundPayment") : Erred(e) /\ ~e.handled
    /\ \E e \in Entries(s, "CancelOrder") : e.err = OK

\* C9: a saga whose ArrangeShipping failed, whose RefundPayment call then
\* failed (the Payment service never applying it) and whose CancelOrder
\* succeeded has returned failure with its order CANCELLED and its payment
\* still SUCCESS.
C9_CancelledButNotRefunded ==
    \A s \in Sagas :
        RefundLostCancelOk(s) =>
            /\ result[s] = "failed to arrange shipping"
            /\ OrderOf(s).Status = "CANCELLED"
            /\ PaymentOf(s).Status = "SUCCESS"

C9_Witness ==
    \E s \in Sagas :
        /\ RefundLostCancelOk(s)
        /\ result[s] # "nil"
        /\ OrderOf(s).Status = "CANCELLED"
        /\ PaymentOf(s).Status = "SUCCESS"

FinalizeFailed(s) ==
    /\ AllForwardOk(s)
    /\ \E e \in Entries(s, "CompleteOrder") : Erred(e)

\* C10 as stated: when CompleteOrder returns an error after the three
\* forward steps succeeded, the saga returns success, issues no compensating
\* call, and the order is left PENDING.
C10_FinalizeErrorLeavesPending ==
    \A s \in Sagas :
        (Returned_(s) /\ FinalizeFailed(s)) =>
            /\ result[s] = "nil"
            /\ CompLog(s) = <<>>
            /\ OrderOf(s).Status = "PENDING"

\* C10 as amended: ... the order is left PENDING unless the Order service
\* had applied the call before the error arose, and is COMPLETED then.
C10_FinalizeErrorIgnored ==
    \A s \in Sagas :
        (Returned_(s) /\ FinalizeFailed(s)) =>
            /\ result[s] = "nil"
            /\ CompLog(s) = <<>>
            /\ Cardinality(CallsOf(s, "CompleteOrder")) = 1
            /\ calls[s][Len(calls[s])].op = "CompleteOrder"
            /\ OrderOf(s).Status =
                  IF Handled(s, "CompleteOrder") THEN "COMPLETED" ELSE "PENDING"

C10_Witness ==
    \E s \in Sagas :
        /\ Returned_(s)
        /\ FinalizeFailed(s)
        /\ result[s] = "nil"
        /\ OrderOf(s).Status = "PENDING"

\* C11: when the CreateOrder call fails the saga has returned "failed to
\* create order" by the time it takes the failure, and CreateOrder is the
\* only remote call it issued: no CancelOrder, ProcessPayment,
\* ArrangeShipping or CompleteOrder follows.
C11_CreateOrderFailureStopsSaga ==
    \A s \in Sagas :
        ForwardFailed(s, "CreateOrder") =>
            /\ Returned_(s)
            /\ result[s] = "failed to create order"
            /\ OpNames(calls[s]) = <<"CreateOrder">>
            /\ state[s].OrderID = NilOrderID

C11_Witness ==
    \E s \in Sagas :
        /\ Returned_(s)
        /\ ForwardFailed(s, "CreateOrder")
        /\ result[s] = "failed to create order"
        /\ Len(calls[s]) = 1

\* The result the forward steps of saga s determine.
ResultOfForwardSteps(s) ==
    IF ForwardFailed(s, "CreateOrder") THEN "failed to create order"
    ELSE IF ForwardOk(s, "CreateOrder") /\ ForwardFailed(s, "ProcessPayment")
    THEN "failed to process payment"
    ELSE IF /\ ForwardOk(s, "CreateOrder")
            /\ ForwardOk(s, "ProcessPayment")
            /\ ForwardFailed(s, "ArrangeShipping")
    THEN "failed to arrange shipping"
    ELSE IF AllForwardOk(s) THEN "nil"
    ELSE "undetermined"

\* C12: the result of a returned saga is the one its first failing forward
\* step determines ("nil" when all three succeeded), whatever the outcome of
\* its compensating and finalize calls.
C12_ResultFromFirstFailingStep ==
    \A s \in Sagas :
        Returned_(s) =>
            /\ result[s] = ResultOfForwardSteps(s)
            /\ result[s] \in {"failed to create order", "failed to process payment",
                              "failed to arrange shipping", "nil"}

\* A failure and a success, each with a compensating or finalize call that failed.
C12_Witness ==
    \E s \in Sagas :
        /\ Returned_(s)
        /\ result[s] = "failed to arrange shipping"
        /\ ResultOfForwardSteps(s) = "failed to arrange shipping"
        /\ \E e \in Entries(s, "CancelOrder") : Erred(e)
        /\ \E e \in Entries(s, "RefundPayment") : e.err = OK

ForwardOrder == <<"CreateOrder", "ProcessPayment", "ArrangeShipping", "CompleteOrder">>

IsForward(e) == e.op \in {ForwardOrder[i] : i \in 1..Len(ForwardOrder)}

\* The forward and finalize calls saga s has issued, in the order of issue.
ForwardLog(s) == SelectSeq(calls[s], IsForward)

\* C13: the forward calls of a saga are issued in the order CreateOrder,
\* ProcessPayment, ArrangeShipping, CompleteOrder, each right after the one
\* before has returned successfully, and at most one remote call of the saga
\* (the last one issued) has not returned.
C13_ForwardCallsSequential ==
    \A s \in Sagas :
        /\ IsPrefix(OpNames(ForwardLog(s)), ForwardOrder)
        /\ \A i \in 1..Len(calls[s]) :
              /\ i < Len(calls[s]) => Over(calls[s][i])
              /\ (IsForward(calls[s][i]) /\ i > 1) =>
                    (IsForward(calls[s][i - 1]) /\ Succeeded(calls[s][i - 1]))
        /\ rpc[s].stage # "idle" =>
              (Len(calls[s]) > 0 /\ rpc[s].op = calls[s][Len(calls[s])].op)
        /\ (Len(calls[s]) > 0 /\ ~Over(calls[s][Len(calls[s])])) => rpc[s].stage # "idle"

C13_Witness ==
    \E s \in Sagas :
        /\ Returned_(s)
        /\ OpNames(calls[s]) = ForwardOrder
        /\ \A i \in 1..Len(calls[s]) : Succeeded(calls[s][i])

SagaOps == {"CreateOrder", "ProcessPayment", "ArrangeShipping",
            "CancelShipping", "RefundPayment", "CancelOrder"}

\* C14: a saga invokes each forward operation and each compensating
\* operation at most once, a forward operation that failed included.
C14_EachOperationAtMostOnce ==
    \A s \in Sagas :
        \A op \in SagaOps : Cardinality(CallsOf(s, op)) <= 1

C14_Witness ==
    \E s \in Sagas :
        /\ Returned_(s)
        /\ ForwardFailed(s, "ProcessPayment")
        /\ ~BusinessFailed(s)
        /\ Cardinality(CallsOf(s, "ProcessPayment")) = 1
        /\ Cardinality(CallsOf(s, "CancelOrder")) = 1

\* The status the records of saga s end in when no other saga touches them,
\* read from the calls of s that its services handled.
AloneOrderStatus(s) ==
    IF Handled(s, "CancelOrder") THEN "CANCELLED"
    ELSE IF Handled(s, "CompleteOrder") THEN "COMPLETED"
    ELSE "PENDING"

AlonePaymentStatus(s) ==
    IF Handled(s, "RefundPayment") THEN "REFUNDED"
    ELSE IF ForwardOk(s, "ProcessPayment") THEN "SUCCESS"
    ELSE "FAILED"

\* Saga s has its result and its records as it has them when it runs alone.
AloneOutcome(s) ==
    /\ result[s] = ResultOfForwardSteps(s)
    /\ Handled(s, "CreateOrder") => OrderOf(s).Status = AloneOrderStatus(s)
    /\ (\E e \in Entries(s, "ProcessPayment") : e.err = OK) =>
          PaymentOf(s).Status = AlonePaymentStatus(s)
    /\ ForwardOk(s, "ArrangeShipping") => ShipmentOf(s).Status = "SHIPPED"
    /\ result[s] = "nil" =>
          (OrderOf(s).Status # "CANCELLED" /\ PaymentOf(s).Status # "REFUNDED")

\* C15: when two sagas that ran concurrently have both returned, each has
\* the result and the final Order, Payment and Shipment status it has when
\* it runs alone; a saga that returned success has its order not CANCELLED
\* and its payment not REFUNDED.
C15_ConcurrentSagasIsolated ==
    (\A s \in Sagas : Returned_(s)) => \A s \in Sagas : AloneOutcome(s)

\* The store the last direct call acted on, as it is now.
StoreAfter ==
    IF last.op \in OrderOps THEN orders
    ELSE IF last.op \in PaymentOps THEN payments
    ELSE shipments

\* The status changes a store operation may make.
AllowedChange(op, old, new) ==
    IF op \in OrderOps THEN old = "PENDING" /\ new \in {"CANCELLED", "COMPLETED"}
    ELSE IF op \in PaymentOps THEN old = "SUCCESS" /\ new = "REFUNDED"
    ELSE old # "CANCELLED" /\ new = "CANCELLED"

\* C16: a store operation changes the status of a record it found only from
\* PENDING to CANCELLED or COMPLETED (order), from SUCCESS to REFUNDED
\* (payment) or from a non-CANCELLED status to CANCELLED (shipment); a record
\* in COMPLETED, CANCELLED or REFUNDED keeps its status.
C16_StatusChangesMonotonic ==
    \A k \in DOMAIN last.before :
        /\ k \in DOMAIN StoreAfter
        /\ StoreAfter[k].Status # last.before[k].Status =>
              AllowedChange(last.op, last.before[k].Status, StoreAfter[k].Status)

\* The identity the last direct call names, and the record it found under it.
LastKey ==
    IF last.op \in OrderOps THEN last.req.OrderId.Id
    ELSE IF last.op = "RefundPayment" THEN last.req.PaymentId
    ELSE last.req.ShipmentId

LastFound == LastKey \in DOMAIN last.before

LastRecord == last.before[LastKey]

\* The record the last direct call names belongs to the order it names.
LastOwned == last.op \in {"RefundPayment", "CancelShipping"} =>
                 LastRecord.OrderId.Id = last.req.OrderId.Id

CompensatedStatus(op) == IF op = "RefundPayment" THEN "REFUNDED" ELSE "CANCELLED"

LastSuccess == last.err = OK /\ last.resp # NoMsg /\ last.resp.Success

\* C17: CancelOrder, RefundPayment or CancelShipping called again on a record
\* that is in its compensated status already (CANCELLED, REFUNDED, CANCELLED)
\* returns success and leaves the store as it was.
C17_CompensationIdempotent ==
    (/\ last.op \in CompensatingOps
     /\ LastFound
     /\ LastOwned
     /\ LastRecord.Status = CompensatedStatus(last.op)) =>
        /\ LastSuccess
        /\ StoreAfter = last.before
        /\ StoreAfter[LastKey].Status = CompensatedStatus(last.op)

C17_Witness ==
    /\ last.op = "RefundPayment"
    /\ LastFound
    /\ LastOwned
    /\ LastRecord.Status = "REFUNDED"
    /\ last.err = OK
    /\ payments[LastKey].Status = "REFUNDED"

\* C18: RefundPayment or CancelShipping called for an existing record whose
\* owning order id is not the order id of the request fails with
\* InvalidArgument and leaves the store unchanged, whatever the record's status.
C18_OwnerMismatchRejected ==
    (/\ last.op \in {"RefundPayment", "CancelShipping"}
     /\ LastFound
     /\ ~LastOwned) =>
        /\ last.err = "InvalidArgument"
        /\ last.resp = NoMsg
        /\ StoreAfter = last.before

C18_Witness ==
    /\ last.op = "CancelShipping"
    /\ LastFound
    /\ ~LastOwned
    /\ LastRecord.Status = "SHIPPED"
    /\ last.err = "InvalidArgument"
    /\ shipments[LastKey].Status = "SHIPPED"

\* C19: CancelOrder, CompleteOrder, RefundPayment or CancelShipping called
\* with an identity the store holds no record for fails with NotFound and
\* leaves the store unchanged.
C19_MissingRecordNotFound ==
    (/\ last.op \in CompensatingOps \cup {"CompleteOrder"}
     /\ ~LastFound) =>
        /\ last.err = "NotFound"
        /\ last.resp = NoMsg
        /\ StoreAfter = last.before

C19_Witness ==
    /\ last.op = "CancelOrder"
    /\ ~LastFound
    /\ last.err = "NotFound"
    /\ orders # EmptyStore
    /\ LastKey \notin DOMAIN orders

\* C20: CompleteOrder on an existing order returns success; it sets the
\* status to COMPLETED when the status is PENDING and leaves the store
\* unchanged for every other status.
C20_CompleteOnlyFromPending ==
    (last.op = "CompleteOrder" /\ LastFound) =>
        /\ LastSuccess
        /\ StoreAfter = IF LastRecord.Status = "PENDING"
                        THEN SetStatus(last.before, LastKey, "COMPLETED")
                        ELSE last.before

C20_Witness ==
    /\ last.op = "CompleteOrder"
    /\ LastFound
    /\ LastRecord.Status = "CANCELLED"
    /\ last.err = OK
    /\ orders[LastKey].Status = "CANCELLED"

\* C21: RefundPayment on an existing payment of the matching order whose
\* status is FAILED returns success and leaves the store as it was, the
\* payment FAILED.
C21_FailedPaymentNotRefunded ==
    (/\ last.op = "RefundPayment"
     /\ LastFound
     /\ LastOwned
     /\ LastRecord.Status = "FAILED") =>
        /\ LastSuccess
        /\ payments = last.before
        /\ payments[LastKey].Status = "FAILED"

C21_Witness ==
    /\ last.op = "RefundPayment"
    /\ LastFound
    /\ LastOwned
    /\ LastRecord.Status = "FAILED"
    /\ last.err = OK
    /\ payments[LastKey].Status = "FAILED"

\* C22: an operation of the Order service removes no record, and only
\* CancelOrder and CompleteOrder change a record that exists: a later
\* CreateOrder leaves the status and the fields of an existing record alone.
C22_OrderChangedOnlyByCancelOrComplete ==
    last.op \in OrderOps =>
        \A k \in DOMAIN last.before :
            /\ k \in DOMAIN orders
            /\ orders[k] # last.before[k] => last.op \in {"CancelOrder", "CompleteOrder"}

\* C23: an operation of the Payment service changes an existing record only
\* when it is RefundPayment, and only from SUCCESS to REFUNDED: a later
\* ProcessPayment leaves a stored record alone.
C23_PaymentChangedOnlyByRefund ==
    last.op \in PaymentOps =>
        \A k \in DOMAIN last.before :
            /\ k \in DOMAIN payments
            /\ payments[k] # last.before[k] =>
                  /\ last.op = "RefundPayment"
                  /\ last.before[k].Status = "SUCCESS"
                  /\ payments[k].Status = "REFUNDED"

\* C27: a ProcessPayment call that returns a response has stored, under the
\* payment id of the response, a record with the status of the response
\* (SUCCESS or FAILED), the order id and the amount of the request.
C27_PaymentRecordedForBothOutcomes ==
    (last.op = "ProcessPayment" /\ last.err = OK) =>
        /\ last.resp.Status \in {"SUCCESS", "FAILED"}
        /\ last.resp.PaymentId \in DOMAIN payments
        /\ payments[last.resp.PaymentId] =
              [Id |-> last.resp.PaymentId,
               OrderId |-> last.req.OrderId,
               Amount |-> last.req.PaymentInfo.Amount,
               Status |-> last.resp.Status]
        /\ \A k \in DOMAIN last.before :
              k # last.resp.PaymentId => payments[k] = last.before[k]

C27_Witness ==
    /\ last.op = "ProcessPayment"
    /\ last.err = OK
    /\ last.resp.Status = "FAILED"
    /\ last.resp.PaymentId \notin DOMAIN last.before
    /\ payments[last.resp.PaymentId].Status = "FAILED"

\* The shipments of an order.
ShipmentsOf(store, orderID) == {k \in DOMAIN store : store[k].OrderId.Id = orderID}

\* C28: an ArrangeShipping call that fails returns an error and no response
\* and leaves the Shipment store unchanged; one that succeeds answers
\* SHIPPED and leaves exactly one record for the order, stored by it.
C28_ShipmentRecordedOnlyOnSuccess ==
    last.op = "ArrangeShipping" =>
        IF last.err # OK
        THEN /\ last.resp = NoMsg
             /\ shipments = last.before
        ELSE /\ last.resp.Status = "SHIPPED"
             /\ ShipmentsOf(shipments, last.req.OrderId.Id) = {last.resp.ShipmentId}
             /\ shipments[last.resp.ShipmentId] =
                   [Id |-> last.resp.ShipmentId,
                    OrderId |-> last.req.OrderId,
                    Address |-> last.req.Address,
                    Status |-> "SHIPPED"]
             /\ \A k \in DOMAIN last.before :
                   k # last.resp.ShipmentId => shipments[k] = last.before[k]

C28_Witness ==
    /\ last.op = "ArrangeShipping"
    /\ last.err = "Internal"
    /\ last.before # EmptyStore
    /\ ShipmentsOf(last.before, last.req.OrderId.Id) = {}
    /\ shipments = last.before

\* C29: each store holds at most one Order per user id and at most one
\* Payment and one Shipment per order id; a forward call for an owner that
\* has a record stores its record under the id of that one and adds none.
C29_OneRecordPerOwner ==
    /\ \A j, k \in DOMAIN orders : orders[j].UserId = orders[k].UserId => j = k
    /\ \A j, k \in DOMAIN payments :
          payments[j].OrderId.Id = payments[k].OrderId.Id => j = k
    /\ \A j, k \in DOMAIN shipments :
          shipments[j].OrderId.Id = shipments[k].OrderId.Id => j = k
    /\ (/\ last.op = "CreateOrder"
        /\ \E k \in DOMAIN last.before :
              last.before[k].UserId = last.req.Details.UserId) =>
          DOMAIN orders = DOMAIN last.before

C29_Witness ==
    /\ last.op = "CreateOrder"
    /\ OrderIdOf(last.req.Details.UserId) \in DOMAIN last.before
    /\ DOMAIN orders = DOMAIN last.before
    /\ Cardinality(DOMAIN orders) = 2

StatusOps == {"CancelOrder", "CompleteOrder", "RefundPayment", "CancelShipping"}

\* C30: every record is stored under its own id, and CancelOrder,
\* CompleteOrder, RefundPayment and CancelShipping change of the store only
\* the status of the record they name.
C30_KeysAreIdsAndOnlyStatusChanges ==
    /\ \A k \in DOMAIN orders : orders[k].Id = k
    /\ \A k \in DOMAIN payments : payments[k].Id = k
    /\ \A k \in DOMAIN shipments : shipments[k].Id = k
    /\ (last.op \in StatusOps /\ LastFound) =>
          StoreAfter = SetStatus(last.before, LastKey, StoreAfter[LastKey].Status)

C30_Witness ==
    /\ last.op = "CancelOrder"
    /\ LastFound
    /\ LastRecord.Status = "PENDING"
    /\ orders[LastKey] = [LastRecord EXCEPT !.Status = "CANCELLED"]
    /\ orders[LastKey].Id = LastKey
    /\ orders[LastKey].TotalAmount = 4600

\* A forward call of saga s ended with the expiry of the saga deadline.
TimedOutStep(s) ==
    \E i \in 1..Len(calls[s]) :
        /\ calls[s][i].op \in {"CreateOrder", "ProcessPayment", "ArrangeShipping"}
        /\ calls[s][i].err = "DeadlineExceeded"

\* The compensating calls due for the ids saga s has recorded.
DueCompensation(s) ==
    (IF state[s].ShipmentID # "" THEN <<"CancelShipping">> ELSE <<>>)
    \o (IF state[s].PaymentID # "" THEN <<"RefundPayment">> ELSE <<>>)
    \o (IF ~state[s].OrderID.isNil THEN <<"CancelOrder">> ELSE <<>>)

\* The call in flight of saga s runs under its own 5 s context, which is
\* live: the call has no answer yet and its service can still handle it.
FreshCallLive(s) ==
    /\ ~CtxDone(s)
    /\ ~Returned(s)
    /\ Arrives(s, OrderOps \cup PaymentOps \cup ShippingOps)

\* C24: a forward call in flight when the saga deadline expires fails, and
\* the saga returns failure after issuing the compensating calls due for
\* the ids it recorded; a compensating call in flight after the saga
\* deadline expired stays live until its own deadline or the transport
\* ends it, and ends with DeadlineExceeded only by its own deadline.
C24_CompensationOutlivesSagaDeadline ==
    \A s \in Sagas :
        sagaCtxDone[s] =>
            /\ TimedOutStep(s) =>
                  /\ IsPrefix(OpNames(CompLog(s)), DueCompensation(s))
                  /\ Returned_(s) =>
                        (OpNames(CompLog(s)) = DueCompensation(s) /\ result[s] # "nil")
            /\ (/\ rpc[s].op \in CompensatingOps
                /\ rpc[s].stage = "sent"
                /\ ~freshCtxDone[s]) => FreshCallLive(s)
            /\ (/\ Returned_(s)
                /\ Len(calls[s]) > 0
                /\ IsCompensating(calls[s][Len(calls[s])])
                /\ calls[s][Len(calls[s])].err = "DeadlineExceeded") => freshCtxDone[s]

C24_Witness ==
    \E s \in Sagas :
        /\ Returned_(s)
        /\ sagaCtxDone[s]
        /\ \E e \in Entries(s, "ArrangeShipping") : e.err = "DeadlineExceeded"
        /\ OpNames(CompLog(s)) = <<"RefundPayment", "CancelOrder">>
        /\ CompensationsOk(s)
        /\ OrderOf(s).Status = "CANCELLED"
        /\ PaymentOf(s).Status = "REFUNDED"

\* C25: once ArrangeShipping has returned success the saga has invoked
\* CompleteOrder exactly once, for its order id; with the saga deadline
\* expired the call stays live until its own deadline or the transport ends
\* it, and ends with DeadlineExceeded only by its own deadline.
C25_FinalizeOutlivesSagaDeadline ==
    \A s \in Sagas :
        ForwardOk(s, "ArrangeShipping") =>
            /\ Cardinality(CallsOf(s, "CompleteOrder")) = 1
            /\ \A e \in Entries(s, "CompleteOrder") :
                  /\ e.req.OrderId = OrderID(SagaOrderId(s))
                  /\ e.err = "DeadlineExceeded" => freshCtxDone[s]
            /\ (/\ rpc[s].op = "CompleteOrder"
                /\ rpc[s].stage = "sent"
                /\ ~freshCtxDone[s]) => FreshCallLive(s)

C25_Witness ==
    \E s \in Sagas :
        /\ Returned_(s)
        /\ sagaCtxDone[s]
        /\ ForwardOk(s, "ArrangeShipping")
        /\ \E e \in Entries(s, "CompleteOrder") : e.err = OK /\ e.handled
        /\ result[s] = "nil"
        /\ OrderOf(s).Status = "COMPLETED"

\* The handlers of a service that are between Lock and Unlock.
InCriticalSection(svc) ==
    {t \in Handlers : handler[t].pc \in {"locked", "write"} /\ ServiceOf(handler[t].op) = svc}

\* C26: at most one handler of a service is between Lock and Unlock, the
\* one that holds the lock, and a handler about to write a status finds the
\* record as its lookup and checks saw it: no write of another handler fell
\* in between, and its write is the one the handler makes in one step.
C26_LockedReadModifyWrite ==
    /\ \A svc \in Services :
          /\ Cardinality(InCriticalSection(svc)) <= 1
          /\ InCriticalSection(svc) = IF mu[svc] = 0 THEN {} ELSE {mu[svc]}
    /\ \A t \in Handlers :
          handler[t].pc = "write" =>
              LET h == handler[t]
                  store == StoreOf(ServiceOf(h.op))
                  k == KeyOf(h.op, h.req)
              IN  /\ k \in DOMAIN store
                  /\ store[k] = h.seen
                  /\ SetStatus(store, k, TargetStatus(h.op)) =
                        Handle(h.op, store, h.req, h.succeeded).store

\* A handler about to write while another call on the same store waits for the lock.
C26_Witness ==
    \E t, u \in Handlers :
        /\ handler[t].op = "CancelOrder"
        /\ handler[t].pc = "write"
        /\ handler[t].seen.Status = "COMPLETED"
        /\ handler[u].op = "CreateOrder"
        /\ handler[u].pc = "called"
        /\ mu["order"] = t

\* C31: a call changes the store of the service it is made to and no other:
\* a step that changes the Order store is a call of an Order operation and
\* leaves the Payment and Shipment stores alone, and likewise for the others.
C31_ServicesKeepToTheirStore ==
    [][/\ orders' # orders =>
            (last'.op \in OrderOps /\ payments' = payments /\ shipments' = shipments)
       /\ payments' # payments =>
            (last'.op \in PaymentOps /\ orders' = orders /\ shipments' = shipments)
       /\ shipments' # shipments =>
            (last'.op \in ShippingOps /\ orders' = orders /\ payments' = payments)
       /\ last'.op \in OrderOps => (payments' = payments /\ shipments' = shipments)
       /\ last'.op \in PaymentOps => (orders' = orders /\ shipments' = shipments)
       /\ last'.op \in ShippingOps => (orders' = orders /\ payments' = payments)]_vars

\* An order cancelled by a direct call, its payment and shipment left as they were.
C31_Witness ==
    /\ last.op = "CancelOrder"
    /\ LastFound
    /\ orders # last.before
    /\ PaymentIdOf(LastKey) \in DOMAIN payments
    /\ payments[PaymentIdOf(LastKey)].Status = "SUCCESS"
    /\ ShipmentIdOf(LastKey) \in DOMAIN shipments
    /\ shipments[ShipmentIdOf(LastKey)].Status = "SHIPPED"

\* The ArrangeShipping call of saga s was applied by the service and its
\* answer was lost.
ShipmentStoredUnseen(s) ==
    \E e \in Entries(s, "ArrangeShipping") : e.handled /\ e.changed /\ Erred(e)

\* C32: no saga invokes CancelShipping; the shipment an ArrangeShipping
\* call stored before its answer was lost is still SHIPPED when the saga
\* has returned its failure.
C32_SagaNeverCancelsShipping ==
    \A s \in Sagas :
        /\ CallsOf(s, "CancelShipping") = {}
        /\ rpc[s].op # "CancelShipping"
        /\ (ForwardFailed(s, "ArrangeShipping") \/ ForwardOk(s, "ArrangeShipping")) =>
              state[s].ShipmentID = IF ForwardOk(s, "ArrangeShipping")
                                    THEN ShipmentIdOf(SagaOrderId(s)) ELSE ""
        /\ ShipmentStoredUnseen(s) =>
              /\ ShipmentOf(s).Status = "SHIPPED"
              /\ Returned_(s) => result[s] = "failed to arrange shipping"

C32_Witness ==
    \E s \in Sagas :
        /\ Returned_(s)
        /\ ShipmentStoredUnseen(s)
        /\ OpNames(CompLog(s)) = <<"RefundPayment", "CancelOrder">>
        /\ CompensationsOk(s)
        /\ OrderOf(s).Status = "CANCELLED"
        /\ ShipmentOf(s).Status = "SHIPPED"

\* C33: a saga that issued CompleteOrder issued no compensating call, one
\* that issued a compensating call issued no CompleteOrder, and a saga that
\* returned success issued no compensating call.
C33_FinalizeExcludesCompensation ==
    \A s \in Sagas :
        /\ CallsOf(s, "CompleteOrder") # {} => CompLog(s) = <<>>
        /\ CompLog(s) # <<>> => CallsOf(s, "CompleteOrder") = {}
        /\ (Returned_(s) /\ result[s] = "nil") => CompLog(s) = <<>>
        /\ (Returned_(s) /\ CompLog(s) # <<>>) => result[s] # "nil"

C33_Witness ==
    \E s \in Sagas :
        /\ Returned_(s)
        /\ ForwardOk(s, "ArrangeShipping")
        /\ \E e \in Entries(s, "CompleteOrder") : Erred(e) /\ e.handled
        /\ CompLog(s) = <<>>
        /\ result[s] = "nil"
        /\ OrderOf(s).Status = "COMPLETED"

RecordErrors == {"NotFound", "InvalidArgument"}

\* C34: no RefundPayment, CancelOrder or CompleteOrder call of a saga is
\* answered with NotFound or InvalidArgument: the service that handles the
\* call finds the record, owned by the order named, and answers success.
C34_SagaCallsFindTheirRecord ==
    \A s \in Sagas :
        /\ \A i \in 1..Len(calls[s]) :
              calls[s][i].op \in {"RefundPayment", "CancelOrder", "CompleteOrder"} =>
                  calls[s][i].err \notin RecordErrors
        /\ rpc[s].op \in {"RefundPayment", "CancelOrder", "CompleteOrder"} =>
              /\ rpc[s].err \notin RecordErrors
              /\ (rpc[s].stage = "replied" /\ rpc[s].err = OK) => rpc[s].resp.Success

\* Two sagas of one user, each with a CancelOrder that succeeded: the
\* second found the order cancelled already.
C34_Witness ==
    \E s, t \in Sagas :
        /\ s # t
        /\ SagaOrderId(s) = SagaOrderId(t)
        /\ Returned_(s) /\ Returned_(t)
        /\ \E e \in Entries(s, "CancelOrder") : e.err = OK /\ e.changed
        /\ \E e \in Entries(t, "CancelOrder") : e.err = OK /\ ~e.changed
        /\ \E e \in Entries(t, "RefundPayment") : e.err = OK

TouchedKey(e) ==
    IF e.op = "CreateOrder" THEN <<"orders", OrderIdOf(e.req.Details.UserId)>>
    ELSE IF e.op \in {"CancelOrder", "CompleteOrder"} THEN <<"orders", e.req.OrderId.Id>>
    ELSE IF e.op = "ProcessPayment" THEN <<"payments", PaymentIdOf(e.req.OrderId.Id)>>
    ELSE IF e.op = "RefundPayment" THEN <<"payments", e.req.PaymentId>>
    ELSE IF e.op = "ArrangeShipping" THEN <<"shipments", ShipmentIdOf(e.req.OrderId.Id)>>
    ELSE <<"shipments", e.req.ShipmentId>>

KeysOf(s) == {TouchedKey(calls[s][i]) : i \in 1..Len(calls[s])}

DifferentUsers(s, t) == input[s].details.UserId # input[t].details.UserId

\* No saga running with saga s has the user id of s.
OnlyOfItsUser(s) == \A t \in Sagas \ {s} : DifferentUsers(s, t)

\* C36: two concurrent sagas with different user ids read and write
\* disjoint sets of Order, Payment and Shipment keys, and a saga that ran
\* with sagas of other users only has, when it has returned, the result and
\* the final record status it has when it runs alone.
C36_DifferentUsersIsolated ==
    \A s, t \in Sagas :
        (s # t /\ DifferentUsers(s, t)) =>
            /\ KeysOf(s) \cap KeysOf(t) = {}
            /\ (Returned_(s) /\ OnlyOfItsUser(s)) => AloneOutcome(s)

\* One saga completed its order and the other, of another user, cancelled
\* its own after a shipping failure, each call of both handled.
C36_Witness ==
    \E s, t \in Sagas :
        /\ DifferentUsers(s, t)
        /\ Returned_(s) /\ Returned_(t)
        /\ result[s] = "nil" /\ Handled(s, "CompleteOrder")
        /\ result[t] = "failed to arrange shipping"
        /\ Handled(t, "RefundPayment") /\ Handled(t, "CancelOrder")
        /\ OrderOf(s).Status = "COMPLETED"
        /\ OrderOf(t).Status = "CANCELLED"
        /\ PaymentOf(t).Status = "REFUNDED"

(***************************************************************************)
(* One saga under fair scheduling                                          *)
(***************************************************************************)
\* The steps of the goroutine running ExecuteCreateOrderSaga.
SagaSteps(s) ==
    \/ StartSaga(s)
    \/ RetCreateOrder(s)
    \/ RetProcessPayment(s)
    \/ RetArrangeShipping(s)
    \/ RetCompleteOrder(s)
    \/ RetCompensate(s)

\* The call in flight returns: its service answers it or the transport
\* reports an error.
CallReturns(s) ==
    /\ rpc[s].stage = "sent"
    /\ \/ OrderService(s)
       \/ PaymentService(s)
       \/ ShippingService(s)
       \/ NetFault(s)

\* The goroutine keeps running, and each remote call it issues returns a
\* response or an error.
Fairness == \A s \in Sagas : WF_vars(SagaSteps(s)) /\ WF_vars(CallReturns(s))

SpecFair == Init /\ [][Next]_vars /\ Fairness

\* C37: a saga issues at most five remote calls, and when each remote call
\* returns a response or an error, every saga that was started returns
\* with a result.
C37_SagaTerminates ==
    /\ [](\A s \in Sagas : Len(calls[s]) <= 5)
    /\ \A s \in Sagas :
          (pc[s] \notin {"off", "done"}) ~> (pc[s] = "done" /\ result[s] # "none")

\* A saga returned after three forward and two compensating calls.
C37_Witness ==
    \E s \in Sagas :
        /\ Returned_(s)
        /\ result[s] = "failed to arrange shipping"
        /\ Len(calls[s]) = 5
        /\ OpNames(calls[s]) = <<"CreateOrder", "ProcessPayment", "ArrangeShipping",
                                 "RefundPayment", "CancelOrder">>

(***************************************************************************)
(* The handlers under fair scheduling                                      *)
(***************************************************************************)
\* A goroutine that can run does run, and one that waits in s.mu.Lock() gets
\* the mutex when it is released again and again: sync.Mutex hands the lock
\* to a waiter that has waited long.  Clients need not go on calling.
LockFairness ==
    \A t \in Handlers :
        /\ SF_vars(AcquireLock(t))
        /\ WF_vars(CheckRecord(t))
        /\ WF_vars(WriteRecord(t))

SpecLockFair == InitLock /\ [][NextLock]_vars /\ LockFairness

\* The handler holds the lock of its store: it is past s.mu.Lock() and
\* before its return.
HoldsLock(t) == handler[t].pc \in {"locked", "write"}

\* The checking handler t holds the lock and finds nothing to write.
NothingToWrite(t) ==
    /\ handler[t].pc = "locked"
    /\ handler[t].op \in CheckingOps
    /\ Handle(handler[t].op, StoreOf(ServiceOf(handler[t].op)), handler[t].req,
              handler[t].succeeded).store = StoreOf(ServiceOf(handler[t].op))

MaxCalls == 2

\* The calls of the order service for the order of one user.
RaceCalls == {c \in HandlerCalls : c.op \in OrderOps}

\* A client issues a call of the order service; calls of different clients
\* are in flight together.
ClientSend(s) ==
    /\ pc[s] = "off"
    /\ rpc[s].stage = "idle"
    /\ Len(calls[s]) < MaxCalls
    /\ \E call \in RaceCalls :
         /\ rpc' = [rpc EXCEPT ![s] = Sent(call)]
         /\ calls' = [calls EXCEPT ![s] = Append(calls[s], LogEntry("client", call))]
    /\ UNCHANGED <<orders, payments, shipments, pc, input, state, sagaCtxDone,
                   freshCtxDone, result, runs, last, mu, handler>>

\* The client gets the answer of its call.
ClientRecv(s) ==
    /\ pc[s] = "off"
    /\ rpc[s].stage = "replied"
    /\ calls' = [calls EXCEPT ![s] = Closed(calls[s], Outcome(s))]
    /\ rpc' = [rpc EXCEPT ![s] = IdleRpc]
    /\ UNCHANGED <<orders, payments, shipments, pc, input, state, sagaCtxDone,
                   freshCtxDone, result, runs, last, mu, handler>>

\* The order service with clients whose calls interleave in every way.  A
\* handler holds the lock of the store from its lookup to its write, so the
\* store sees it as one step.
InitRace == InitWith({})

NextRace ==
    \E s \in Sagas :
        \/ ClientSend(s)
        \/ OrderService(s)
        \/ ClientRecv(s)

SpecRace == InitRace /\ [][NextRace]_vars

\* The calls of a method by all clients: the client and the place in its log.
AllCallsOf(op) == {<<s, i>> \in Sagas \X (1..MaxCalls) : i \in CallsOf(s, op)}

EntryAt(c) == calls[c[1]][c[2]]

\* The clients have issued one CreateOrder, one CancelOrder and one
\* CompleteOrder in all.
OneOfEach == \A op \in OrderOps : Cardinality(AllCallsOf(op)) = 1

\* The call has returned and it found the order: the order was created
\* before the call was handled.
FoundOrder(e) == Over(e) /\ e.err # "NotFound"

\* C35: one CancelOrder and one CompleteOrder that both found the order one
\* CreateOrder created, in flight together or one after the other, both
\* return success and leave the order CANCELLED: CancelOrder writes over
\* PENDING and COMPLETED, CompleteOrder writes over PENDING only.
C35_CancelWinsOverComplete ==
    OneOfEach =>
        \A c \in AllCallsOf("CancelOrder"), k \in AllCallsOf("CompleteOrder") :
            (FoundOrder(EntryAt(c)) /\ FoundOrder(EntryAt(k))) =>
                /\ EntryAt(c).err = OK /\ EntryAt(c).resp.Success
                /\ EntryAt(k).err = OK /\ EntryAt(k).resp.Success
                /\ EntryAt(c).changed
                /\ orders[EntryAt(c).req.OrderId.Id].Status = "CANCELLED"

\* CompleteOrder of one client completed the order and CancelOrder of the
\* other then cancelled it.
C35_Witness ==
    /\ OneOfEach
    /\ \E c \in AllCallsOf("CancelOrder"), k \in AllCallsOf("CompleteOrder") :
          /\ c[1] # k[1]
          /\ FoundOrder(EntryAt(c)) /\ FoundOrder(EntryAt(k))
          /\ EntryAt(k).changed
          /\ EntryAt(c).changed
          /\ orders[EntryAt(c).req.OrderId.Id].Status = "CANCELLED"

====
